---- MODULE Spec2Model ----
(***************************************************************************)
(* Inferencia por enumeracion en redes bayesianas (src/src/inference.py).  *)
(*                                                                         *)
(* Probabilities are exact: a CPT entry k stands for k/Escala, and a value *)
(* returned by enumerar_todo over a list of n variables is the numerator   *)
(* of a fraction whose denominator is Escala^n (every term of the          *)
(* enumeration is a product of exactly n CPT entries).  A normalised       *)
(* probability is the pair <<numerator, denominator>>.                     *)
(***************************************************************************)
EXTENDS Integers, Sequences, FiniteSets, TLC

VARIABLES G, vars_red, archivo_log, evidencia, archivo, pasos, resultado,
          exc, llamada, nllamadas

vars == <<G, vars_red, archivo_log, evidencia, archivo, pasos, resultado,
          exc, llamada, nllamadas>>

\* ------------------------------------------------------------------ bounds
\* CPT entries are multiples of 1/Escala.
Escala == 2
\* Number of consecutive consulta_enumeracion calls of one session.
MaxLlamadas == 2

\* ------------------------------------------------------------ input space
Nodos == {"R", "S", "W"}
Valores == {"t", "f"}

\* Parent sets of the three network shapes: R and S incomparable parents of
\* W; the chain R -> S -> W; and the complete DAG.
Estructuras ==
  { [R |-> {}, S |-> {}, W |-> {"R", "S"}],
    [R |-> {}, S |-> {"R"}, W |-> {"S"}],
    [R |-> {}, S |-> {"R"}, W |-> {"R", "S"}] }

Idx(v) == CASE v = "R" -> 0 [] v = "S" -> 1 [] OTHER -> 2

\* Numerator of P(v = "t" | pa) in the network with parameter k.
Peso(v, pa, k) ==
  (k + Idx(v) + Cardinality({p \in DOMAIN pa : pa[p] = "t"})) % (Escala + 1)

\* The rows of v's CPT: for every assignment of the parents, the row of "t"
\* and the row of "f"; the two probabilities sum to 1.
RECURSIVE FilasDe(_, _, _)
FilasDe(v, pas, k) ==
  IF pas = {} THEN <<>>
  ELSE LET pa == CHOOSE q \in pas : TRUE
       IN <<[pa |-> pa, value |-> "t", prob |-> Peso(v, pa, k)],
            [pa |-> pa, value |-> "f", prob |-> Escala - Peso(v, pa, k)]>>
          \o FilasDe(v, pas \ {pa}, k)

CPTDe(v, padres, k) == FilasDe(v, [padres -> Valores], k)

RedCompleta(e, k) ==
  [padres |-> e, cpt |-> [v \in Nodos |-> CPTDe(v, e[v], k)]]

\* The same network with the first row of W's CPT missing.
RedFilaFaltante(e, k) ==
  [padres |-> e,
   cpt |-> [v \in Nodos |->
              IF v = "W" THEN Tail(CPTDe(v, e[v], k)) ELSE CPTDe(v, e[v], k)]]

\* The same network with S's first row repeated at the end of its CPT with
\* another probability.
RedFilaRepetida(e, k) ==
  [padres |-> e,
   cpt |-> [v \in Nodos |->
              IF v = "S"
              THEN LET c == CPTDe(v, e[v], k)
                   IN Append(c, [c[1] EXCEPT !.prob = Escala - c[1].prob])
              ELSE CPTDe(v, e[v], k)]]

RedesCompletas == {RedCompleta(e, k) : e \in Estructuras, k \in 0..Escala}
RedesDefectuosas ==
  {RedFilaFaltante(e, 1) : e \in Estructuras}
    \cup {RedFilaRepetida(e, 1) : e \in Estructuras}
Redes == RedesCompletas \cup RedesDefectuosas

\* Evidence maps of the callers: some variables observed, at least one not.
Evidencias ==
  UNION {[S -> Valores] : S \in {T \in SUBSET Nodos : T # Nodos}}

\* vars_red arguments: <<>> for None (the default), or <<m>> for a map m from
\* every variable to the iteration order of its set of values.
DominiosBinarios == [v \in Nodos |-> <<"t", "f">>]
Dominios ==
  {DominiosBinarios}
    \cup {[DominiosBinarios EXCEPT ![v] = <<>>] : v \in Nodos}
ArgsVarsRed == {<<>>} \cup {<<d>> : d \in Dominios}

\* archivo_log arguments.
ArgsArchivoLog == {"None", "traza.txt"}

\* ------------------------------------------------------------- the tracker
Paso(tipo, var, val, num, ev) ==
  [tipo |-> tipo, var |-> var, val |-> val, num |-> num, ev |-> ev]

SinEvidencia == [v \in {} |-> "t"]

\* RastreadorInferencia without the write_text('') that starts a new log.
RastreadorInferencia_sin_limpiar(log, fichero) ==
  [pasos |-> <<>>, archivo_log |-> log, archivo |-> fichero]

RastreadorInferencia(log, fichero) ==
  [pasos |-> <<>>,
   archivo_log |-> log,
   archivo |-> IF log # "None" THEN <<>> ELSE fichero]

agregar_paso(rastreador, msg) ==
  [rastreador EXCEPT
     !.pasos = Append(@, msg),
     !.archivo = IF rastreador.archivo_log # "None" THEN Append(@, msg) ELSE @]

\* ---------------------------------------------------------- CPT resolver
\* obtener_probabilidad that filters by the variable's value only, not by the
\* parents' values.
obtener_probabilidad_sin_padres(var, ev, red) ==
  IF ~(red.padres[var] \subseteq DOMAIN ev) \/ var \notin DOMAIN ev
  THEN [exc |-> "KeyError", ret |-> 0]
  ELSE LET coincidencias == SelectSeq(red.cpt[var], LAMBDA f : f.value = ev[var])
       IN IF coincidencias = <<>>
          THEN [exc |-> "IndexError", ret |-> 0]
          ELSE [exc |-> "ninguna", ret |-> coincidencias[1].prob]

\* obtener_probabilidad that sums the matching rows (.sum() for .iloc[0]), so
\* that no matching row gives probability 0.
obtener_probabilidad_por_defecto(var, ev, red) ==
  IF ~(red.padres[var] \subseteq DOMAIN ev) \/ var \notin DOMAIN ev
  THEN [exc |-> "KeyError", ret |-> 0]
  ELSE LET coincidencias ==
             SelectSeq(red.cpt[var], LAMBDA f :
               /\ \A p \in red.padres[var] : f.pa[p] = ev[p]
               /\ f.value = ev[var])
       IN IF coincidencias = <<>>
          THEN [exc |-> "ninguna", ret |-> 0]
          ELSE [exc |-> "ninguna", ret |-> coincidencias[1].prob]

obtener_probabilidad(var, ev, red) ==
  LET cpt == red.cpt[var]
      padres == red.padres[var]
  IN IF padres = {}
     THEN IF var \notin DOMAIN ev
          THEN [exc |-> "KeyError", ret |-> 0]
          ELSE LET coincidencias ==
                     SelectSeq(cpt, LAMBDA f : f.value = ev[var])
               IN IF coincidencias = <<>>
                  THEN [exc |-> "IndexError", ret |-> 0]
                  ELSE [exc |-> "ninguna", ret |-> coincidencias[1].prob]
     ELSE IF ~(padres \subseteq DOMAIN ev) \/ var \notin DOMAIN ev
          THEN [exc |-> "KeyError", ret |-> 0]
          ELSE LET coincidencias ==
                     SelectSeq(cpt, LAMBDA f :
                       /\ \A p \in padres : f.pa[p] = ev[p]
                       /\ f.value = ev[var])
               IN IF coincidencias = <<>>
                  THEN [exc |-> "IndexError", ret |-> 0]
                  ELSE [exc |-> "ninguna", ret |-> coincidencias[1].prob]

\* ------------------------------------------------- topological enumerator
Quitar(ev, Y) == [v \in DOMAIN ev \ {Y} |-> ev[v]]

Falla(e, ev, rastreador) ==
  [exc |-> e, ret |-> 0, evidencia |-> ev, rastreador |-> rastreador]

RECURSIVE enumerar_todo(_, _, _, _, _)
RECURSIVE sumar_valores(_, _, _, _, _, _, _, _)

\* The loop of enumerar_todo without the evidencia.pop(Y) after it.
sumar_valores_sin_pop(Y, resto, i, total, ev, red, dominios, rastreador) ==
  IF i > Len(dominios[Y])
  THEN [exc |-> "ninguna", ret |-> total, evidencia |-> ev,
        rastreador |->
          agregar_paso(rastreador, Paso("Suma para", Y, "", total, SinEvidencia))]
  ELSE LET y == dominios[Y][i]
           ev1 == (Y :> y) @@ ev
           py == obtener_probabilidad(Y, ev1, red)
       IN IF py.exc # "ninguna"
          THEN Falla(py.exc, ev1, rastreador)
          ELSE LET r == enumerar_todo(resto, ev1, red, dominios,
                          agregar_paso(rastreador, Paso("P(Y=y|padres)", Y, y, py.ret, SinEvidencia)))
               IN IF r.exc # "ninguna"
                  THEN r
                  ELSE LET sub == py.ret * r.ret
                       IN sumar_valores(Y, resto, i + 1, total + sub, r.evidencia,
                            red, dominios,
                            agregar_paso(r.rastreador, Paso("Termino para", Y, y, sub, SinEvidencia)))

\* The loop of enumerar_todo with total = sub for total += sub.
sumar_valores_sin_acumular(Y, resto, i, total, ev, red, dominios, rastreador) ==
  IF i > Len(dominios[Y])
  THEN IF Y \notin DOMAIN ev
       THEN Falla("KeyError", ev, rastreador)
       ELSE [exc |-> "ninguna", ret |-> total, evidencia |-> Quitar(ev, Y),
             rastreador |->
               agregar_paso(rastreador, Paso("Suma para", Y, "", total, SinEvidencia))]
  ELSE LET y == dominios[Y][i]
           ev1 == (Y :> y) @@ ev
           py == obtener_probabilidad(Y, ev1, red)
       IN IF py.exc # "ninguna"
          THEN Falla(py.exc, ev1, rastreador)
          ELSE LET r == enumerar_todo(resto, ev1, red, dominios,
                          agregar_paso(rastreador, Paso("P(Y=y|padres)", Y, y, py.ret, SinEvidencia)))
               IN IF r.exc # "ninguna"
                  THEN r
                  ELSE LET sub == py.ret * r.ret
                       IN sumar_valores(Y, resto, i + 1, sub, r.evidencia,
                            red, dominios,
                            agregar_paso(r.rastreador, Paso("Termino para", Y, y, sub, SinEvidencia)))

\* The loop of enumerar_todo over the values of the hidden variable Y, from
\* the i-th value on, with the running total, and the code after the loop.
sumar_valores(Y, resto, i, total, ev, red, dominios, rastreador) ==
  IF i > Len(dominios[Y])
  THEN IF Y \notin DOMAIN ev
       THEN Falla("KeyError", ev, rastreador)
       ELSE [exc |-> "ninguna", ret |-> total, evidencia |-> Quitar(ev, Y),
             rastreador |->
               agregar_paso(rastreador, Paso("Suma para", Y, "", total, SinEvidencia))]
  ELSE LET y == dominios[Y][i]
           ev1 == (Y :> y) @@ ev
           py == obtener_probabilidad(Y, ev1, red)
       IN IF py.exc # "ninguna"
          THEN Falla(py.exc, ev1, rastreador)
          ELSE LET r == enumerar_todo(resto, ev1, red, dominios,
                          agregar_paso(rastreador, Paso("P(Y=y|padres)", Y, y, py.ret, SinEvidencia)))
               IN IF r.exc # "ninguna"
                  THEN r
                  ELSE LET sub == py.ret * r.ret
                       IN sumar_valores(Y, resto, i + 1, total + sub, r.evidencia,
                            red, dominios,
                            agregar_paso(r.rastreador, Paso("Termino para", Y, y, sub, SinEvidencia)))

\* enumerar_todo that also pops a variable it found in the evidence.
enumerar_todo_quita_observada(variables, ev, red, dominios, rastreador) ==
  IF variables = <<>>
  THEN [exc |-> "ninguna", ret |-> 1, evidencia |-> ev, rastreador |-> rastreador]
  ELSE LET Y == Head(variables)
           resto == Tail(variables)
           r1 == agregar_paso(
                   agregar_paso(rastreador, Paso("Enumerando sobre", Y, "", 0, SinEvidencia)),
                   Paso("Evidencia actual", "", "", 0, ev))
       IN IF Y \in DOMAIN ev
          THEN LET py == obtener_probabilidad(Y, ev, red)
               IN IF py.exc # "ninguna"
                  THEN Falla(py.exc, ev, r1)
                  ELSE LET r == enumerar_todo(resto, ev, red, dominios,
                                  agregar_paso(r1, Paso("en evidencia", Y, ev[Y], py.ret, SinEvidencia)))
                       IN IF r.exc # "ninguna"
                          THEN r
                          ELSE [exc |-> "ninguna", ret |-> py.ret * r.ret,
                                evidencia |-> Quitar(r.evidencia, Y),
                                rastreador |->
                                  agregar_paso(r.rastreador,
                                    Paso("Retornando", "", "", py.ret * r.ret, SinEvidencia))]
          ELSE sumar_valores(Y, resto, 1, 0, ev, red, dominios,
                 agregar_paso(r1, Paso("Sumando sobre valores de", Y, "", 0, SinEvidencia)))

enumerar_todo(variables, ev, red, dominios, rastreador) ==
  IF variables = <<>>
  THEN [exc |-> "ninguna", ret |-> 1, evidencia |-> ev, rastreador |-> rastreador]
  ELSE LET Y == Head(variables)
           resto == Tail(variables)
           r1 == agregar_paso(
                   agregar_paso(rastreador, Paso("Enumerando sobre", Y, "", 0, SinEvidencia)),
                   Paso("Evidencia actual", "", "", 0, ev))
       IN IF Y \in DOMAIN ev
          THEN LET py == obtener_probabilidad(Y, ev, red)
               IN IF py.exc # "ninguna"
                  THEN Falla(py.exc, ev, r1)
                  ELSE LET r == enumerar_todo(resto, ev, red, dominios,
                                  agregar_paso(r1, Paso("en evidencia", Y, ev[Y], py.ret, SinEvidencia)))
                       IN IF r.exc # "ninguna"
                          THEN r
                          ELSE [exc |-> "ninguna", ret |-> py.ret * r.ret,
                                evidencia |-> r.evidencia,
                                rastreador |->
                                  agregar_paso(r.rastreador,
                                    Paso("Retornando", "", "", py.ret * r.ret, SinEvidencia))]
          ELSE sumar_valores(Y, resto, 1, 0, ev, red, dominios,
                 agregar_paso(r1, Paso("Sumando sobre valores de", Y, "", 0, SinEvidencia)))

\* ------------------------------------------------------- posterior query
\* The orders nx.topological_sort may return: every parent before its child.
Permutaciones(S) ==
  {s \in [1..Cardinality(S) -> S] : \A v \in S : \E i \in DOMAIN s : s[i] = v}

\* The nodes in any order (list(G.nodes) for nx.topological_sort(G)).
OrdenesCualesquiera(red) == Permutaciones(DOMAIN red.padres)

OrdenesTopologicos(red) ==
  {s \in Permutaciones(Nodos) :
     \A i \in DOMAIN s : \A p \in red.padres[s[i]] :
        \E j \in 1..(i - 1) : s[j] = p}

RECURSIVE Suma(_, _)
Suma(Q, S) ==
  IF S = {} THEN 0
  ELSE LET x == CHOOSE z \in S : TRUE IN Q[x] + Suma(Q, S \ {x})

\* The loop of consulta_enumeracion over the values of X, from the i-th on.
RECURSIVE consultar_valores(_, _, _, _, _, _, _, _)
consultar_valores(X, i, Q, ev, red, dominios, variables, rastreador) ==
  IF i > Len(dominios[X])
  THEN [exc |-> "ninguna", ret |-> Q, evidencia |-> ev, rastreador |-> rastreador]
  ELSE LET x == dominios[X][i]
           ev1 == (X :> x) @@ ev
           r == enumerar_todo(variables, ev1, red, dominios,
                  agregar_paso(rastreador, Paso("Calculando P(X=x, e)", X, x, 0, SinEvidencia)))
       IN IF r.exc # "ninguna"
          THEN [r EXCEPT !.ret = Q]
          ELSE consultar_valores(X, i + 1, (x :> r.ret) @@ Q, r.evidencia, red,
                 dominios, variables,
                 agregar_paso(r.rastreador, Paso("P(X=x, e) =", X, x, r.ret, SinEvidencia)))

\* The trace steps of the normalisation, one per value of Q in its order.
RECURSIVE pasos_normalizar(_, _, _, _, _, _)
pasos_normalizar(X, orden, i, Q, total, rastreador) ==
  IF i > Len(orden) THEN rastreador
  ELSE pasos_normalizar(X, orden, i + 1, Q, total,
         agregar_paso(rastreador, Paso("P(X=x|e) =", X, orden[i], Q[orden[i]], SinEvidencia)))

\* normalizar with the total taken over the distinct values of Q
\* (sum(set(Q.values()))).
normalizar_valores_distintos(X, orden, Q, ev, rastreador) ==
  LET distintos == {Q[x] : x \in DOMAIN Q}
      total == Suma([n \in distintos |-> n], distintos)
  IN IF DOMAIN Q # {} /\ total = 0
     THEN [exc |-> "ZeroDivisionError", ret |-> SinEvidencia, evidencia |-> ev,
           rastreador |-> rastreador]
     ELSE [exc |-> "ninguna",
           ret |-> [x \in DOMAIN Q |-> <<Q[x], total>>],
           evidencia |-> ev,
           rastreador |-> pasos_normalizar(X, orden, 1, Q, total, rastreador)]

\* normalizar that divides by the first value of Q instead of the sum.
normalizar_por_primero(X, orden, Q, ev, rastreador) ==
  LET total == IF orden = <<>> THEN 0 ELSE Q[orden[1]]
  IN IF DOMAIN Q # {} /\ total = 0
     THEN [exc |-> "ZeroDivisionError", ret |-> SinEvidencia, evidencia |-> ev,
           rastreador |-> rastreador]
     ELSE [exc |-> "ninguna",
           ret |-> [x \in DOMAIN Q |-> <<Q[x], total>>],
           evidencia |-> ev,
           rastreador |-> pasos_normalizar(X, orden, 1, Q, total, rastreador)]

\* normalizar whose division by zero yields NaN entries (0/0) instead of
\* raising, as a division of numpy floats does.
normalizar_sin_error(X, orden, Q, ev, rastreador) ==
  LET total == Suma(Q, DOMAIN Q)
  IN [exc |-> "ninguna",
      ret |-> [x \in DOMAIN Q |-> <<Q[x], total>>],
      evidencia |-> ev,
      rastreador |-> pasos_normalizar(X, orden, 1, Q, total, rastreador)]

normalizar(X, orden, Q, ev, rastreador) ==
  LET total == Suma(Q, DOMAIN Q)
  IN IF DOMAIN Q # {} /\ total = 0
     THEN [exc |-> "ZeroDivisionError", ret |-> SinEvidencia, evidencia |-> ev,
           rastreador |-> rastreador]
     ELSE [exc |-> "ninguna",
           ret |-> [x \in DOMAIN Q |-> <<Q[x], total>>],
           evidencia |-> ev,
           rastreador |-> pasos_normalizar(X, orden, 1, Q, total, rastreador)]

DominiosPorDefecto == [v \in Nodos |-> <<"f", "t">>]

consulta_enumeracion(X, ev, red, arg_vars_red, log, variables, fichero) ==
  LET dominios == IF arg_vars_red = <<>> THEN DominiosPorDefecto ELSE arg_vars_red[1]
      r0 == agregar_paso(
              agregar_paso(RastreadorInferencia(log, fichero),
                           Paso("Calculando P(X|e)", X, "", 0, ev)),
              Paso("Variables en orden topologico", "", "", 0, SinEvidencia))
      q == consultar_valores(X, 1, SinEvidencia, ev, red, dominios, variables, r0)
  IN IF q.exc # "ninguna"
     THEN [q EXCEPT !.ret = SinEvidencia]
     ELSE IF X \notin DOMAIN q.evidencia
     THEN [exc |-> "KeyError", ret |-> SinEvidencia, evidencia |-> q.evidencia,
           rastreador |-> q.rastreador]
     ELSE normalizar(X, dominios[X], q.ret, Quitar(q.evidencia, X), q.rastreador)

\* ---------------------------------------------------------- state machine
SinLlamada ==
  [X |-> "", evidencia |-> SinEvidencia, variables |-> <<>>]

Init ==
  /\ G \in Redes
  /\ vars_red \in ArgsVarsRed
  /\ archivo_log \in ArgsArchivoLog
  /\ evidencia \in Evidencias
  /\ archivo = <<Paso("contenido previo", "", "", 0, SinEvidencia)>>
  /\ pasos = <<>>
  /\ resultado = SinEvidencia
  /\ exc = "ninguna"
  /\ llamada = SinLlamada
  /\ nllamadas = 0

\* One call consulta_enumeracion(X, evidencia, G, vars_red, archivo_log) by
\* the session's caller, on the evidence map the caller holds; variables is
\* the order nx.topological_sort returns.
Consulta(X, variables) ==
  /\ nllamadas < MaxLlamadas
  /\ LET r == consulta_enumeracion(X, evidencia, G, vars_red, archivo_log, variables, archivo)
     IN /\ evidencia' = r.evidencia
        /\ archivo' = r.rastreador.archivo
        /\ pasos' = r.rastreador.pasos
        /\ resultado' = r.ret
        /\ exc' = r.exc
  /\ llamada' = [X |-> X, evidencia |-> evidencia, variables |-> variables]
  /\ nllamadas' = nllamadas + 1
  /\ UNCHANGED <<G, vars_red, archivo_log>>

Next ==
  \E X \in Nodos, variables \in OrdenesTopologicos(G) : Consulta(X, variables)

Spec == Init /\ [][Next]_vars
\* ------------------------------------------- the last call and its inputs
Hubo == nllamadas > 0

DominiosLlamada == IF vars_red = <<>> THEN DominiosPorDefecto ELSE vars_red[1]

ValoresDe(seq) == {seq[i] : i \in DOMAIN seq}

\* The complete assignments the query sums over for the value x of X: X is
\* x, every other observed variable has its observed value, every hidden
\* variable has a value of its domain.
Asignaciones(x) ==
  {a \in [Nodos -> Valores] :
     /\ a[llamada.X] = x
     /\ \A v \in Nodos \ {llamada.X} :
          IF v \in DOMAIN llamada.evidencia
          THEN a[v] = llamada.evidencia[v]
          ELSE a[v] \in ValoresDe(DominiosLlamada[v])}

\* The rows of v's CPT that give P(v = a[v] | parents as in a).
FilasPara(v, a) ==
  {i \in DOMAIN G.cpt[v] :
     /\ G.cpt[v][i].value = a[v]
     /\ \A p \in G.padres[v] : G.cpt[v][i].pa[p] = a[p]}

Entrada(v, a) == G.cpt[v][CHOOSE i \in FilasPara(v, a) : TRUE].prob

RECURSIVE Producto(_, _)
Producto(a, S) ==
  IF S = {} THEN 1
  ELSE LET v == CHOOSE w \in S : TRUE IN Entrada(v, a) * Producto(a, S \ {v})

RECURSIVE SumaProductos(_)
SumaProductos(A) ==
  IF A = {} THEN 0
  ELSE LET a == CHOOSE b \in A : TRUE
       IN Producto(a, Nodos) + SumaProductos(A \ {a})

\* Numerator (over Escala^3) of the joint P(X = x, e) by its definition.
Conjunta(x) == SumaProductos(Asignaciones(x))

RECURSIVE SumaConjunta(_)
SumaConjunta(S) ==
  IF S = {} THEN 0
  ELSE LET x == CHOOSE z \in S : TRUE IN Conjunta(x) + SumaConjunta(S \ {x})

TotalConjunta == SumaConjunta(ValoresDe(DominiosLlamada[llamada.X]))

\* Every CPT has exactly one row for every assignment the query needs.
CPTsCompletas ==
  \A x \in ValoresDe(DominiosLlamada[llamada.X]) :
    \A a \in Asignaciones(x) : \A v \in Nodos :
      Cardinality(FilasPara(v, a)) = 1

\* Some assignment the query needs has no row in some node's CPT.
FilaFaltante ==
  \E x \in ValoresDe(DominiosLlamada[llamada.X]) :
    \E a \in Asignaciones(x) : \E v \in Nodos : FilasPara(v, a) = {}

DominiosNoVacios == \A v \in Nodos : DominiosLlamada[v] # <<>>

ConsultaValida ==
  /\ Hubo
  /\ llamada.X \notin DOMAIN llamada.evidencia
  /\ DominiosNoVacios
  /\ CPTsCompletas
  /\ TotalConjunta > 0

Devolvio == Hubo /\ exc = "ninguna"

TiposEnumeracion ==
  {"Calculando P(X=x, e)", "Enumerando sobre", "Evidencia actual",
   "en evidencia", "Retornando", "Sumando sobre valores de", "P(Y=y|padres)",
   "Termino para", "Suma para", "P(X=x, e) ="}

\* ------------------------------------------------------------------ claims

\* C1: after every call of consulta_enumeracion, returned or failed, the
\* caller's evidence map has the keys and values it had when the call began.
C1_EvidenciaIntacta == Hubo => evidencia = llamada.evidencia

\* C2: for a valid query the returned distribution gives, for every value x
\* of X's domain, the posterior P(X = x | e): the joint of x and the evidence
\* summed over the hidden variables, divided by that sum over all values of X.
C2_Posterior ==
  ConsultaValida =>
    /\ exc = "ninguna"
    /\ DOMAIN resultado = ValoresDe(DominiosLlamada[llamada.X])
    /\ \A x \in DOMAIN resultado :
         /\ resultado[x][2] > 0
         /\ resultado[x][1] * TotalConjunta = Conjunta(x) * resultado[x][2]

C2_Testigo ==
  /\ ConsultaValida
  /\ Cardinality(DOMAIN llamada.evidencia) = 1
  /\ \E x \in DOMAIN resultado : 0 < resultado[x][1] /\ resultado[x][1] < resultado[x][2]

\* C3: for a valid query the returned distribution has exactly one entry per
\* value of X's domain and its values sum to exactly 1.
C3_SumaUno ==
  ConsultaValida =>
    /\ exc = "ninguna"
    /\ DOMAIN resultado = ValoresDe(DominiosLlamada[llamada.X])
    /\ \E den \in {resultado[x][2] : x \in DOMAIN resultado} :
         /\ den > 0
         /\ \A x \in DOMAIN resultado : resultado[x][2] = den
         /\ Suma([x \in DOMAIN resultado |-> resultado[x][1]], DOMAIN resultado) = den

C3_Testigo ==
  /\ ConsultaValida
  /\ Cardinality(DOMAIN resultado) = 2
  /\ \A x \in DOMAIN resultado : resultado[x][1] > 0

\* C4: for a valid query every value of the returned distribution lies in
\* [0, 1].
C4_EnCeroUno ==
  ConsultaValida =>
    \A x \in DOMAIN resultado :
      /\ resultado[x][2] > 0
      /\ 0 <= resultado[x][1]
      /\ resultado[x][1] <= resultado[x][2]

C4_Testigo ==
  /\ ConsultaValida
  /\ \E x \in DOMAIN resultado : resultado[x][1] = resultado[x][2]
  /\ \E x \in DOMAIN resultado : resultado[x][1] = 0

\* C5: a call whose query variable is already a key of the evidence map ends
\* with an error before any enumeration step, and returns no distribution.
C5_ErrorSiXEnEvidencia ==
  (Hubo /\ llamada.X \in DOMAIN llamada.evidencia) =>
    /\ exc # "ninguna"
    /\ \A i \in DOMAIN pasos : pasos[i].tipo \notin TiposEnumeracion

\* C6: when the evidence has probability zero under the CPTs (the joint
\* values of all values of X sum to zero), the call ends with an error and
\* returns no distribution.
C6_EvidenciaImposible ==
  (Hubo /\ DominiosNoVacios /\ CPTsCompletas /\ TotalConjunta = 0) =>
    /\ exc = "ZeroDivisionError"
    /\ DOMAIN resultado = {}

C6_Testigo ==
  /\ Hubo /\ DominiosNoVacios /\ CPTsCompletas /\ TotalConjunta = 0
  /\ llamada.X \notin DOMAIN llamada.evidencia
  /\ llamada.evidencia # SinEvidencia
  /\ exc = "ZeroDivisionError"

\* C7: when some node's CPT has no row for an assignment the enumeration
\* needs, the call ends with the lookup error of obtener_probabilidad and
\* returns no distribution.
C7_FilaFaltante ==
  (Hubo /\ FilaFaltante) => (exc = "IndexError" /\ DOMAIN resultado = {})

C7_Testigo ==
  /\ Hubo /\ FilaFaltante
  /\ llamada.X \notin DOMAIN llamada.evidencia
  /\ exc = "IndexError"
  /\ Len(pasos) > 2

\* C8: enumerar_todo returns the same value for any two topological orders
\* of the network's variables, on the same evidence and domains.
C8_OrdenIndiferente ==
  Hubo =>
    \A ev \in {llamada.evidencia}
                \cup {(llamada.X :> x) @@ llamada.evidencia :
                        x \in ValoresDe(DominiosLlamada[llamada.X])} :
      \A o1, o2 \in OrdenesTopologicos(G) :
        LET r1 == enumerar_todo(o1, ev, G, DominiosLlamada, RastreadorInferencia("None", <<>>))
            r2 == enumerar_todo(o2, ev, G, DominiosLlamada, RastreadorInferencia("None", <<>>))
        IN /\ (r1.exc = "ninguna") <=> (r2.exc = "ninguna")
           /\ r1.exc = "ninguna" => r1.ret = r2.ret

C8_Testigo ==
  /\ Hubo
  /\ G.padres["S"] = {}
  /\ llamada.evidencia = SinEvidencia
  /\ \E o1, o2 \in OrdenesTopologicos(G) :
       /\ o1 # o2
       /\ LET r1 == enumerar_todo(o1, (llamada.X :> "t"), G, DominiosLlamada,
                                  RastreadorInferencia("None", <<>>))
          IN r1.exc = "ninguna" /\ r1.ret > 0

\* C9: a call with an empty domain for the query variable ends with an error
\* and returns no distribution.
C9_ErrorSiDominioVacio ==
  (Hubo /\ DominiosLlamada[llamada.X] = <<>>) => exc # "ninguna"

\* C10: after any sequence of calls writing to the same trace sink, the sink
\* holds exactly the steps of the most recent call, in the order recorded,
\* also when that call failed.
C10_TrazaDeLaUltimaLlamada ==
  (Hubo /\ archivo_log # "None") =>
    /\ archivo = pasos
    /\ Len(archivo) >= 2
    /\ archivo[1] = Paso("Calculando P(X|e)", llamada.X, "", 0, llamada.evidencia)
    /\ \A i \in DOMAIN archivo : i > 1 => archivo[i].tipo # "Calculando P(X|e)"
    /\ \A i \in DOMAIN archivo : archivo[i].tipo # "contenido previo"

C10_Testigo ==
  /\ nllamadas = MaxLlamadas
  /\ archivo_log # "None"
  /\ exc = "IndexError"
  /\ Len(archivo) > 2
\* ------------------------------------------ the calls of the recursion
\* The enumerar_todo calls the last consulta_enumeracion made, read from its
\* trace: every call on a non-empty list records the variable it enumerates
\* and then the evidence it was entered with; its list is the rest of the
\* call's order from that variable on.
Posicion(Y) ==
  CHOOSE j \in DOMAIN llamada.variables : llamada.variables[j] = Y

EntradasEnumerar ==
  {[variables |-> SubSeq(llamada.variables, Posicion(pasos[i - 1].var),
                         Len(llamada.variables)),
    ev |-> pasos[i].ev] :
     i \in {j \in DOMAIN pasos : pasos[j].tipo = "Evidencia actual"}}

SinRastro == RastreadorInferencia("None", <<>>)

\* C11: every call of enumerar_todo that returns normally leaves the
\* evidence map as it was at that call's entry, at every level of the
\* recursion; a hidden variable summed over is absent from it again.
C11_EvidenciaRestaurada ==
  Hubo =>
    \A e \in EntradasEnumerar :
      LET r == enumerar_todo(e.variables, e.ev, G, DominiosLlamada, SinRastro)
      IN r.exc = "ninguna" =>
           /\ r.evidencia = e.ev
           /\ Head(e.variables) \notin DOMAIN e.ev =>
                Head(e.variables) \notin DOMAIN r.evidencia

C11_Testigo ==
  /\ Hubo
  /\ exc = "ninguna"
  /\ \E e \in EntradasEnumerar :
       /\ Len(e.variables) < Len(llamada.variables)
       /\ Head(e.variables) \notin DOMAIN e.ev
       /\ \E f \in EntradasEnumerar :
            /\ Len(f.variables) < Len(e.variables)
            /\ Head(f.variables) \in DOMAIN llamada.evidencia
            /\ Head(e.variables) \in DOMAIN f.ev
       /\ enumerar_todo(e.variables, e.ev, G, DominiosLlamada, SinRastro).exc = "ninguna"
\* The variables a call lists, and those of them it sums over.
Listados(e) == ValoresDe(e.variables)
Ocultos(e) == Listados(e) \ DOMAIN e.ev

\* The complete assignments a call sums over: the entry evidence fixed, every
\* other variable with a value of its domain.
AsignacionesDe(e) ==
  {a \in [Nodos -> Valores] :
     \A v \in Nodos :
       IF v \in DOMAIN e.ev THEN a[v] = e.ev[v]
       ELSE a[v] \in ValoresDe(DominiosLlamada[v])}

RECURSIVE SumaProductosDe(_, _)
SumaProductosDe(A, S) ==
  IF A = {} THEN 0
  ELSE LET a == CHOOSE b \in A : TRUE
       IN Producto(a, S) + SumaProductosDe(A \ {a}, S)

\* Numerator of the unnormalised joint of a call by its definition: the sum
\* over the assignments of the product of the listed variables' CPT entries.
ConjuntaDe(e) == SumaProductosDe(AsignacionesDe(e), Listados(e))

\* The call is within the contract: every variable is observed or listed,
\* every hidden one has values, and every needed CPT entry has one row.
EntradaValida(e) ==
  /\ Nodos \subseteq DOMAIN e.ev \cup Listados(e)
  /\ \A v \in Ocultos(e) : DominiosLlamada[v] # <<>>
  /\ \A a \in AsignacionesDe(e) : \A v \in Listados(e) :
       Cardinality(FilasPara(v, a)) = 1

\* The calls of the last query, and the direct call on the caller's evidence.
EntradasConDirecta ==
  EntradasEnumerar
    \cup {[variables |-> llamada.variables, ev |-> llamada.evidencia]}

\* C12: for a topologically ordered list enumerar_todo returns the
\* unnormalised joint probability of the evidence: the sum over the
\* assignments of the listed hidden variables of the product of the listed
\* variables' CPT entries; for an empty list it returns 1.
C12_ConjuntaNoNormalizada ==
  Hubo =>
    /\ \A e \in EntradasConDirecta :
         EntradaValida(e) =>
           LET r == enumerar_todo(e.variables, e.ev, G, DominiosLlamada, SinRastro)
           IN r.exc = "ninguna" /\ r.ret = ConjuntaDe(e)
    /\ LET r == enumerar_todo(<<>>, llamada.evidencia, G, DominiosLlamada, SinRastro)
       IN r.exc = "ninguna" /\ r.ret = 1

C12_Testigo ==
  /\ Hubo
  /\ \E e \in EntradasEnumerar :
       /\ EntradaValida(e)
       /\ Cardinality(Ocultos(e)) = 2
       /\ DOMAIN e.ev # {}
       /\ ConjuntaDe(e) > 1
       /\ enumerar_todo(e.variables, e.ev, G, DominiosLlamada, SinRastro).ret > 1
\* The evidence maps obtener_probabilidad is called with by the
\* enumerar_todo call that enumerates Y from the entry evidence ev: ev itself
\* when Y is observed, ev with each value of Y's domain otherwise.
EvidenciasDeConsulta(Y, ev) ==
  IF Y \in DOMAIN ev THEN {ev}
  ELSE {(Y :> y) @@ ev : y \in ValoresDe(DominiosLlamada[Y])}

\* C13: during a consulta_enumeracion call with the variables in topological
\* order, at every call of obtener_probabilidad the evidence holds a value
\* for the resolved variable and for each of its parents, so the lookup never
\* fails for missing evidence.
C13_PadresResueltos ==
  Hubo =>
    \A i \in {j \in DOMAIN pasos : pasos[j].tipo = "Evidencia actual"} :
      LET Y == pasos[i - 1].var
      IN /\ G.padres[Y] \subseteq DOMAIN pasos[i].ev
         /\ \A ev \in EvidenciasDeConsulta(Y, pasos[i].ev) :
              /\ G.padres[Y] \cup {Y} \subseteq DOMAIN ev
              /\ obtener_probabilidad(Y, ev, G).exc # "KeyError"

C13_Testigo ==
  /\ Hubo
  /\ exc = "ninguna"
  /\ \E i \in {j \in DOMAIN pasos : pasos[j].tipo = "Evidencia actual"} :
       LET Y == pasos[i - 1].var
       IN /\ Y \notin DOMAIN pasos[i].ev
          /\ \E p \in G.padres[Y] :
               p \notin DOMAIN llamada.evidencia /\ p # llamada.X

====
